---- MODULE Spec2Model ----
(***************************************************************************)
(* The checkout transaction of src/server.js (POST /api/orders) together   *)
(* with the handlers that write the rows it reads: POST /api/cart,         *)
(* DELETE /api/cart/:id and PUT /api/products/:id; the handlers that read  *)
(* the rows it wrote, GET /api/orders/:id and GET /api/orders/:id/invoice; *)
(* and the back-in-stock mails of PUT /api/products/:id.                   *)
(*                                                                         *)
(* The store is MySQL/InnoDB reached through mysql2.  A checkout runs on   *)
(* its own connection between beginTransaction and commit/rollback: its    *)
(* first SELECT is a consistent (non-locking) read of the committed rows,  *)
(* its INSERTs, UPDATE and DELETE are invisible to every other connection  *)
(* until commit, and the rows it UPDATEs or DELETEs stay locked until      *)
(* commit or rollback.  Every other handler uses pool.query, one           *)
(* autocommitted statement at a time.                                      *)
(*                                                                         *)
(* Money: a DECIMAL(10,2) column is an integer number of cents; a          *)
(* JavaScript number is an integer number of mills (1/1000 of the currency *)
(* unit), which holds price * quantity and its tenth exactly.              *)
(***************************************************************************)
EXTENDS Integers, Sequences, FiniteSets

\* ---------------------------------------------------------------- bounds
MaxStock == 2          \* stock of a product at the start and at most in an update
MaxQty == 2            \* largest quantity of one cart line
MaxAdminUpdates == 1   \* admin product updates in one behaviour
MaxCartOps == 2        \* cart additions and removals in one behaviour

Users == {1, 2}
Products == {1, 2}
Reqs == {"r1", "r2"}   \* POST /api/orders requests that may be in flight together
Prices == {1000, 1999}               \* prices an admin update sets, in cents
InitPrice == <<1000, 500>>           \* product 1 at 10.00, product 2 at 5.00

VARIABLES
  stock,         \* products.stock, committed value per product
  price,         \* products.price in cents, committed value per product
  cart,          \* cart rows, committed: cart[u][p] = quantity, 0 for no row
  orders,        \* committed rows of table orders
  orderItems,    \* committed rows of table order_items
  nextOrderId,   \* AUTO_INCREMENT counter of table orders
  smtp,          \* SMTP_HOST, SMTP_USER and SMTP_PASS are all set
  adminUpdates,  \* number of PUT /api/products/:id served so far
  cartOps,       \* number of POST /api/cart and DELETE /api/cart/:id served
  pc,            \* where each POST /api/orders request stands
  user,          \* req.user.id of each request
  cartItems,     \* the rows its cart SELECT returned
  orderId,       \* orderResult.insertId of the orders row it inserted
  idx,           \* how many of cartItems its write loop has handled
  result,        \* the response it sent
  invoice,       \* what became of its invoice email
  consumed,      \* history: a request of the same user committed an order
                 \* from the cart rows this request holds
  productRows,   \* ids of the rows of table products
  view,          \* the GET /api/orders/:id and .../invoice requests
  wishlist,      \* rows of table wishlist, as pairs <<user_id, product_id>>
  admin,         \* the PUT /api/products/:id request in flight, step by step
  cartRows,      \* rows of table cart, one record per row: the table that
                 \* cart shows under its key, for the statements whose
                 \* effect rests on the key
  nextCartId,    \* AUTO_INCREMENT counter of table cart
  adds,          \* the POST /api/cart requests in flight, step by step
  accepted,      \* history: per (user, product), the quantities of the adds
                 \* accepted since the line was last removed or cleared
  lastCart,      \* history: the cart request whose statement ran last
  conn           \* per POST /api/orders request: how often it has taken a
                 \* connection from the pool and how often released one

vars == <<stock, price, cart, orders, orderItems, nextOrderId, smtp,
          adminUpdates, cartOps, pc, user, cartItems, orderId, idx, result,
          invoice, consumed, productRows, view, wishlist, admin, cartRows,
          nextCartId, adds, accepted, lastCart, conn>>

\* The state of the handlers that are taken step by step in the
\* specifications of their own.
viewVars == <<view>>
restockVars == <<wishlist, admin>>
cartRowVars == <<cartRows, nextCartId, adds, accepted, lastCart>>
otherVars == <<productRows, view, wishlist, admin, cartRows, nextCartId, adds,
               accepted, lastCart>>

reqVars == <<pc, user, cartItems, orderId, idx, result, invoice, consumed,
             conn>>

\* ------------------------------------------------------------ arithmetic
Max(a, b) == IF a >= b THEN a ELSE b

\* The numeric value of a DECIMAL(10,2) string, as JavaScript reads it in
\* item.price * item.quantity.
CentsToNumber(c) == 10 * c

RECURSIVE SumLines(_)
SumLines(items) ==
  IF items = <<>> THEN 0
  ELSE SumLines(Tail(items))
       + CentsToNumber(Head(items).price) * Head(items).quantity

\* cartItems.reduce((sum, item) => sum + item.price * item.quantity, 0)
Subtotal(items) == SumLines(items)

\* subtotal * 0.1
Tax(subtotal) == subtotal \div 10

\* subtotal + tax
Total(subtotal, tax) == subtotal + tax

\* What a DECIMAL(10,2) column keeps of a number the driver sends as a decimal
\* literal: the value rounded to two decimals, half away from zero.  When the
\* exact value lies on a half cent, the double that JavaScript computed lies
\* just below or just above it (0.35 * 0.1 is 0.034999999999999996,
\* 0.05 * 0.1 is 0.005000000000000001), so either neighbour can be stored.
ToDecimal2(n) ==
  IF n % 10 = 5 THEN {n \div 10, n \div 10 + 1}
  ELSE {(n + 5) \div 10}

\* ------------------------------------------------------------ the store
NoRow == [id |-> 0, user_id |-> 0, subtotal |-> 0, tax |-> 0, total |-> 0]
NoResult == [kind |-> "none", product |-> 0, order |-> NoRow]
NoCart == [p \in Products |-> 0]

Views == {"v1", "v2"}  \* GET /api/orders/:id and .../invoice requests
Adds == {"c1", "c2"}   \* POST /api/cart requests that may be in flight together
OrderIds == 1..3       \* the :id of such a request
NoBody == [id |-> 0, lines |-> {}, subtotal |-> 0, tax |-> 0, total |-> 0]
NoView == [pc |-> "idle", kind |-> "none", caller |-> 0, id |-> 0,
           order |-> NoRow, status |-> "none", items |-> {}, body |-> NoBody]
\* admin.old is history: the committed stock the UPDATE replaced.
NoAdmin == [pc |-> "idle", product |-> 0, price |-> 0, stockValue |-> 0,
            before |-> 0, old |-> 0, todo |-> {}, sent |-> <<>>,
            result |-> "none"]
RestockReqs == {"r1"}  \* the POST /api/orders request in flight beside it
NoLastCart == [op |-> "none", user |-> 0, id |-> 0]
NoConn == [acquired |-> 0, released |-> 0]
connectionLimit == 10  \* mysql.createPool({ connectionLimit: 10 })
NoAdd == [pc |-> "idle", user |-> 0, product |-> 0, quantity |-> 0, qty |-> 0,
          result |-> "none"]

RECURSIVE CartRows(_, _)
\* The rows of SELECT ... FROM cart JOIN products ... WHERE cart.user_id = u
\* for the products from p on, in product order.
CartRows(u, p) ==
  IF p \notin Products THEN <<>>
  ELSE (IF cart[u][p] > 0
          THEN <<[product_id |-> p, quantity |-> cart[u][p],
                  price |-> price[p], stock |-> stock[p]]>>
          ELSE <<>>) \o CartRows(u, p + 1)

\* Faulty variant: the test !cartItems, which an array never satisfies.
IsEmptyArrayTest(items) == FALSE

\* !cartItems.length
IsEmpty(items) == Len(items) = 0

\* item.stock < item.quantity
Insufficient(item) == item.stock < item.quantity

\* Faulty variant: the stock check looks at the first row only.
FirstRowInsufficient(items) ==
  IF items # <<>> /\ Insufficient(Head(items)) THEN Head(items).product_id ELSE 0

\* The first row the stock check rejects, 0 when it rejects none.
RECURSIVE FirstInsufficient(_)
FirstInsufficient(items) ==
  IF items = <<>> THEN 0
  ELSE IF Insufficient(Head(items)) THEN Head(items).product_id
  ELSE FirstInsufficient(Tail(items))

\* Faulty variant: the UPDATE takes one unit whatever the quantity bought.
DecrementStockByOne(s, q) == s - 1

\* UPDATE products SET stock = stock - ? WHERE id = ?
DecrementStock(s, q) == s - q

\* Math.max(0, parseInt(stock) || 0)
StockValue(input) == Max(0, input)

\* Math.max(1, parseInt(quantity) || 1)
CartQty(input) == Max(1, input)

\* The rows a request has written inside its open transaction.
InTx(r) == pc[r] \in {"order", "items", "clear", "commit"}
Handled(r) == {cartItems[r][i].product_id : i \in 1..idx[r]}
Purchased(r, p) ==
  LET hit == {i \in 1..idx[r] : cartItems[r][i].product_id = p}
  IN  IF hit = {} THEN 0 ELSE cartItems[r][CHOOSE i \in hit : TRUE].quantity

\* Row locks, held until commit or rollback: a products row from its UPDATE
\* on, the user's cart rows from the DELETE on.
ProductLocked(p, r) ==
  \E o \in Reqs \ {r} : InTx(o) /\ p \in Handled(o)
CartLocked(u, r) ==
  \E o \in Reqs \ {r} : pc[o] = "commit" /\ user[o] = u

\* Faulty variant: the order_items row takes the product's price at the time
\* of the INSERT, not the price the cart SELECT returned.
TxItemsRepriced(r) ==
  {[order_id |-> orderId[r], product_id |-> cartItems[r][i].product_id,
    quantity |-> cartItems[r][i].quantity,
    price |-> price[cartItems[r][i].product_id]] : i \in 1..idx[r]}

\* The order_items rows of request r's transaction.
TxItems(r) ==
  {[order_id |-> orderId[r], product_id |-> cartItems[r][i].product_id,
    quantity |-> cartItems[r][i].quantity, price |-> cartItems[r][i].price]
     : i \in 1..idx[r]}

\* The cart content of a set of SELECTed rows, without the products columns.
Lines(items) ==
  {<<items[i].product_id, items[i].quantity>> : i \in 1..Len(items)}

\* The connections out of the pool.
CheckedOut ==
  LET held(r) == conn[r].acquired - conn[r].released
  IN  held("r1") + held("r2")

\* const conn = await pool.getConnection()
GetConnection(c) == [c EXCEPT !.acquired = @ + 1]

\* Faulty variant: conn.release() as the last statement of the try block and
\* of the catch block, which the two early returns do not reach.
ReleaseAtEndOfTry(c, kind) ==
  IF kind \in {"EmptyCart", "InsufficientStock"} THEN c
  ELSE [c EXCEPT !.released = @ + 1]

\* finally { conn.release() }, on the exit that answered kind
Release(c, kind) == [c EXCEPT !.released = @ + 1]

\* ----------------------------------------------------------------- Init
InitRest ==
  /\ price = [p \in Products |-> InitPrice[p]]
  /\ orders = {}
  /\ orderItems = {}
  /\ nextOrderId = 1
  /\ smtp \in BOOLEAN
  /\ adminUpdates = 0
  /\ cartOps = 0
  /\ pc = [r \in Reqs |-> "idle"]
  /\ user = [r \in Reqs |-> 0]
  /\ cartItems = [r \in Reqs |-> <<>>]
  /\ orderId = [r \in Reqs |-> 0]
  /\ idx = [r \in Reqs |-> 0]
  /\ result = [r \in Reqs |-> NoResult]
  /\ invoice = [r \in Reqs |-> "none"]
  /\ consumed = [r \in Reqs |-> FALSE]
  /\ view = [v \in Views |-> NoView]
  /\ admin = NoAdmin
  /\ cartRows = {}
  /\ nextCartId = 1
  /\ adds = [c \in Adds |-> NoAdd]
  /\ accepted = [u \in Users |-> NoCart]
  /\ lastCart = NoLastCart
  /\ conn = [r \in Reqs |-> NoConn]

Init ==
  /\ stock = [p \in Products |-> MaxStock]
  /\ cart = [u \in Users |-> NoCart]
  /\ wishlist = {}
  /\ productRows = Products
  /\ InitRest

\* -------------------------------------------------------- cart handlers
\* POST /api/cart
AddToCart(u, p, quantity) ==
  /\ cartOps < MaxCartOps
  /\ stock[p] > 0
  /\ ~CartLocked(u, "none")
  /\ cart[u][p] + CartQty(quantity) <= MaxQty
  /\ cart' = [cart EXCEPT ![u][p] = @ + CartQty(quantity)]
  /\ cartOps' = cartOps + 1
  /\ UNCHANGED <<stock, price, orders, orderItems, nextOrderId, smtp,
                 adminUpdates>>
  /\ UNCHANGED reqVars
  /\ UNCHANGED otherVars

\* DELETE /api/cart/:id, the row id standing for (owner, product)
RemoveCartLine(u, owner, p) ==
  /\ cartOps < MaxCartOps
  /\ cart[owner][p] > 0
  /\ ~CartLocked(owner, "none")
  /\ cart' = IF owner = u THEN [cart EXCEPT ![u][p] = 0] ELSE cart
  /\ cartOps' = cartOps + 1
  /\ UNCHANGED <<stock, price, orders, orderItems, nextOrderId, smtp,
                 adminUpdates>>
  /\ UNCHANGED reqVars
  /\ UNCHANGED otherVars

\* PUT /api/products/:id of a product with a row and no wishlist row: the
\* request answers 404 without the row, and with no wishlist row
\* sendBackInStockAlerts sends nothing, whatever the stock read before the
\* UPDATE was.  AdminRead .. AdminRespond take the handler step by step.
UpdateProduct(p, newPrice, stockInput) ==
  /\ adminUpdates < MaxAdminUpdates
  /\ p \in productRows
  /\ wishlist = {}
  /\ ~ProductLocked(p, "none")
  /\ stock' = [stock EXCEPT ![p] = StockValue(stockInput)]
  /\ price' = [price EXCEPT ![p] = newPrice]
  /\ adminUpdates' = adminUpdates + 1
  /\ UNCHANGED <<cart, orders, orderItems, nextOrderId, smtp, cartOps>>
  /\ UNCHANGED reqVars
  /\ UNCHANGED otherVars

\* ------------------------------------------------------ POST /api/orders
Respond(r, kind, p, order) ==
  result' = [result EXCEPT ![r] = [kind |-> kind, product |-> p, order |-> order]]

\* The handler returns: its locals are gone.
Finish(r) ==
  /\ pc' = [pc EXCEPT ![r] = "done"]
  /\ cartItems' = [cartItems EXCEPT ![r] = <<>>]
  /\ orderId' = [orderId EXCEPT ![r] = 0]
  /\ idx' = [idx EXCEPT ![r] = 0]
  /\ consumed' = [consumed EXCEPT ![r] = FALSE]

\* getConnection, beginTransaction, the cart SELECT and the two checks on it
PlaceOrder(r, u) ==
  /\ pc[r] = "idle"
  /\ CheckedOut < connectionLimit
  /\ user' = [user EXCEPT ![r] = u]
  /\ LET items == CartRows(u, 1) IN
       IF IsEmpty(items)
         THEN /\ Respond(r, "EmptyCart", 0, NoRow)
              /\ Finish(r)
              /\ conn' = [conn EXCEPT ![r] =
                            Release(GetConnection(@), "EmptyCart")]
       ELSE IF FirstInsufficient(items) # 0
         THEN /\ Respond(r, "InsufficientStock", FirstInsufficient(items), NoRow)
              /\ Finish(r)
              /\ conn' = [conn EXCEPT ![r] =
                            Release(GetConnection(@), "InsufficientStock")]
       ELSE   /\ pc' = [pc EXCEPT ![r] = "order"]
              /\ cartItems' = [cartItems EXCEPT ![r] = items]
              /\ conn' = [conn EXCEPT ![r] = GetConnection(@)]
              /\ UNCHANGED <<result, orderId, idx, consumed>>
  /\ UNCHANGED <<stock, price, cart, orders, orderItems, nextOrderId, smtp,
                 adminUpdates, cartOps, invoice>>
  /\ UNCHANGED otherVars

\* INSERT INTO orders (user_id, subtotal, tax, total, status)
InsertOrder(r) ==
  /\ pc[r] = "order"
  /\ orderId' = [orderId EXCEPT ![r] = nextOrderId]
  /\ nextOrderId' = nextOrderId + 1
  /\ pc' = [pc EXCEPT ![r] = "items"]
  /\ UNCHANGED <<stock, price, cart, orders, orderItems, smtp, adminUpdates,
                 cartOps, user, cartItems, idx, result, invoice, consumed>>
  /\ UNCHANGED <<otherVars, conn>>

\* One turn of the write loop: INSERT INTO order_items, UPDATE products
InsertItem(r) ==
  /\ pc[r] = "items"
  /\ idx[r] < Len(cartItems[r])
  /\ ~ProductLocked(cartItems[r][idx[r] + 1].product_id, r)
  /\ idx' = [idx EXCEPT ![r] = @ + 1]
  /\ pc' = [pc EXCEPT ![r] =
              IF idx[r] + 1 = Len(cartItems[r]) THEN "clear" ELSE "items"]
  /\ UNCHANGED <<stock, price, cart, orders, orderItems, nextOrderId, smtp,
                 adminUpdates, cartOps, user, cartItems, orderId, result,
                 invoice, consumed>>
  /\ UNCHANGED <<otherVars, conn>>

\* DELETE FROM cart WHERE user_id = ?, then the SELECT of the user's row
ClearCart(r) ==
  /\ pc[r] = "clear"
  /\ ~CartLocked(user[r], r)
  /\ pc' = [pc EXCEPT ![r] = "commit"]
  /\ UNCHANGED <<stock, price, cart, orders, orderItems, nextOrderId, smtp,
                 adminUpdates, cartOps, user, cartItems, orderId, idx, result,
                 invoice, consumed>>
  /\ UNCHANGED <<otherVars, conn>>

\* The orders row of request r's transaction, as the DECIMAL(10,2) columns
\* keep the three numbers.
TxOrders(r) ==
  LET subtotal == Subtotal(cartItems[r])
      tax == Tax(subtotal)
      total == Total(subtotal, tax)
  IN  {[id |-> orderId[r], user_id |-> user[r], subtotal |-> s, tax |-> t,
        total |-> g] : s \in ToDecimal2(subtotal), t \in ToDecimal2(tax),
                       g \in ToDecimal2(total)}

\* Faulty variant: order_items keyed by product, a later order's line for a
\* product takes the place of an earlier order's line for it.
CommittedItemsPerProduct(r) ==
  {i \in orderItems : i.product_id \notin Handled(r)} \cup TxItems(r)

\* The committed rows once request r's transaction commits.
CommittedStock(r) ==
  [p \in Products |-> IF p \in Handled(r)
                        THEN DecrementStock(stock[p], Purchased(r, p))
                        ELSE stock[p]]

\* Faulty variant: DELETE FROM cart, without WHERE user_id = ?
CommittedCartOfAll(r) == [u \in Users |-> NoCart]

\* DELETE FROM cart WHERE user_id = ?, once committed
CommittedCart(r) == [cart EXCEPT ![user[r]] = NoCart]

CommittedItems(r) == orderItems \cup TxItems(r)

\* conn.commit()
Commit(r) ==
  /\ pc[r] = "commit"
  /\ stock' = CommittedStock(r)
  /\ cart' = CommittedCart(r)
  /\ \E row \in TxOrders(r) : orders' = orders \cup {row}
  /\ orderItems' = CommittedItems(r)
  /\ pc' = [pc EXCEPT ![r] = "mail"]
  /\ consumed' = [o \in Reqs |->
       IF o # r /\ InTx(o) /\ user[o] = user[r]
          /\ Lines(cartItems[o]) = Lines(cartItems[r])
         THEN TRUE ELSE consumed[o]]
  /\ UNCHANGED <<price, nextOrderId, smtp, adminUpdates, cartOps, user,
                 cartItems, orderId, idx, result, invoice>>
  /\ UNCHANGED <<otherVars, conn>>

\* orderPayload: the numbers computed in JavaScript, not the stored row
OrderPayload(r) ==
  LET subtotal == Subtotal(cartItems[r])
      tax == Tax(subtotal)
  IN  [id |-> orderId[r], user_id |-> user[r], subtotal |-> subtotal,
       tax |-> tax, total |-> Total(subtotal, tax)]

\* sendInvoiceEmail: skipped without SMTP settings, else one sendMail
InvoiceOutcomes == IF smtp THEN {"sent", "failed"} ELSE {"skipped"}

\* Faulty variant: sendInvoiceEmail is called before conn.commit().
CanDispatchBeforeCommit(r) == pc[r] \in {"commit", "mail"}

\* sendInvoiceEmail is called once conn.commit() has returned.
CanDispatch(r) == pc[r] = "mail"

\* Faulty variant: no .catch, the rejected sendInvoiceEmail lands in the
\* catch block.
AfterInvoiceUncaught(outcome) ==
  IF outcome = "failed" THEN "TransactionFailed" ELSE "OrderPlaced"

\* .catch on sendInvoiceEmail, then res.json({ message: "Order placed" })
AfterInvoice(outcome) == "OrderPlaced"

\* await sendInvoiceEmail(...).catch(...), then res.json and conn.release()
SendInvoice(r) ==
  /\ CanDispatch(r)
  /\ \E o \in InvoiceOutcomes :
       /\ invoice' = [invoice EXCEPT ![r] = o]
       /\ Respond(r, AfterInvoice(o), 0, OrderPayload(r))
       /\ conn' = [conn EXCEPT ![r] = Release(@, AfterInvoice(o))]
  /\ Finish(r)
  /\ UNCHANGED <<stock, price, cart, orders, orderItems, nextOrderId, smtp,
                 adminUpdates, cartOps, user>>
  /\ UNCHANGED otherVars

\* Faulty variant: the catch block does not roll back, and the stock UPDATEs made so
\* far are committed with the connection's next transaction.
NotRolledBack(r) ==
  [stock |-> [p \in Products |-> IF p \in Handled(r)
                                    THEN stock[p] - Purchased(r, p)
                                    ELSE stock[p]],
   cart |-> cart, orders |-> orders, orderItems |-> orderItems]

\* The committed rows once request r's transaction is rolled back.
RolledBack(r) ==
  [stock |-> stock, cart |-> cart, orders |-> orders, orderItems |-> orderItems]

\* A statement or the commit throws: catch, conn.rollback(), status 500
QueryFails(r) ==
  /\ InTx(r)
  /\ stock' = RolledBack(r).stock
  /\ cart' = RolledBack(r).cart
  /\ orders' = RolledBack(r).orders
  /\ orderItems' = RolledBack(r).orderItems
  /\ Respond(r, "TransactionFailed", 0, NoRow)
  /\ Finish(r)
  /\ conn' = [conn EXCEPT ![r] = Release(@, "TransactionFailed")]
  /\ UNCHANGED <<price, nextOrderId, smtp, adminUpdates, cartOps, user,
                 invoice>>
  /\ UNCHANGED otherVars

Next ==
  \/ \E u \in Users, p \in Products, q \in 0..MaxQty : AddToCart(u, p, q)
  \/ \E u \in Users, o \in Users, p \in Products : RemoveCartLine(u, o, p)
  \/ \E p \in Products, c \in Prices, s \in (-1)..MaxStock : UpdateProduct(p, c, s)
  \/ \E r \in Reqs, u \in Users : PlaceOrder(r, u)
  \/ \E r \in Reqs : InsertOrder(r)
  \/ \E r \in Reqs : InsertItem(r)
  \/ \E r \in Reqs : ClearCart(r)
  \/ \E r \in Reqs : Commit(r)
  \/ \E r \in Reqs : SendInvoice(r)
  \/ \E r \in Reqs : QueryFails(r)

Spec == Init /\ [][Next]_vars

\* ------------------------------ GET /api/orders/:id, GET /api/orders/:id/invoice
\* number.toFixed(2) of a number of mills, in cents.  On a half cent the
\* double decides, the same way each time the same number is formatted.
ToFixed2(n) ==
  IF n % 10 = 5 THEN CHOOSE c \in {n \div 10, n \div 10 + 1} : TRUE
  ELSE (n + 5) \div 10

\* Faulty variant: the orders SELECT without AND orders.user_id = ?
AnyOrder(u, id) == {row \in orders : row.id = id}

\* SELECT orders.*, users.name, users.email FROM orders JOIN users ...
\* WHERE orders.id = ? AND orders.user_id = ?
OwnedOrder(u, id) == {row \in orders : row.id = id /\ row.user_id = u}

\* SELECT order_items.*, products.title FROM order_items JOIN products
\* ON order_items.product_id = products.id WHERE order_items.order_id = ?
JoinedItems(id) ==
  {i \in orderItems : i.order_id = id /\ i.product_id \in productRows}

RECURSIVE SumRows(_)
\* items.reduce((sum, item) => sum + item.price * item.quantity, 0)
SumRows(items) ==
  IF items = {} THEN 0
  ELSE LET i == CHOOSE x \in items : TRUE
       IN  CentsToNumber(i.price) * i.quantity + SumRows(items \ {i})

\* buildInvoicePdf: the text of the invoice, the amounts as toFixed(2) prints
\* them.  The product titles, the customer's name and email and the date are
\* left out: two invoices that differ here differ in their bytes.
buildInvoicePdf(order, items) ==
  LET subtotal == SumRows(items)
      tax == Tax(subtotal)
      total == Total(subtotal, tax)
  IN  [id |-> order.id,
       lines |-> {[product_id |-> i.product_id, quantity |-> i.quantity,
                   amount |-> ToFixed2(CentsToNumber(i.price) * i.quantity)]
                    : i \in items},
       subtotal |-> ToFixed2(subtotal),
       tax |-> ToFixed2(tax),
       total |-> ToFixed2(total)]

\* The orders SELECT of either handler and the 404 when it returns no row
ViewOrder(v, kind, u, id) ==
  /\ view[v].pc = "idle"
  /\ LET rows == OwnedOrder(u, id) IN
       view' = [view EXCEPT ![v] =
         IF rows = {}
           THEN [NoView EXCEPT !.pc = "done", !.kind = kind, !.caller = u,
                               !.id = id, !.status = "OrderNotFound"]
           ELSE [NoView EXCEPT !.pc = "items", !.kind = kind, !.caller = u,
                               !.id = id, !.order = CHOOSE row \in rows : TRUE]]
  /\ UNCHANGED <<stock, price, cart, orders, orderItems, nextOrderId, smtp,
                 adminUpdates, cartOps, productRows>>
  /\ UNCHANGED <<reqVars, restockVars, cartRowVars>>

\* GET /api/orders/:id
GetOrder(v, u, id) == ViewOrder(v, "order", u, id)

\* GET /api/orders/:id/invoice
RenderInvoice(v, u, id) == ViewOrder(v, "invoice", u, id)

\* The order_items SELECT of either handler and its response
SendView(v) ==
  /\ view[v].pc = "items"
  /\ LET items == JoinedItems(view[v].id) IN
       view' = [view EXCEPT ![v].pc = "done", ![v].status = "ok",
                            ![v].items = items,
                            ![v].body = IF view[v].kind = "invoice"
                                          THEN buildInvoicePdf(view[v].order, items)
                                          ELSE NoBody]
  /\ UNCHANGED <<stock, price, cart, orders, orderItems, nextOrderId, smtp,
                 adminUpdates, cartOps, productRows>>
  /\ UNCHANGED <<reqVars, restockVars, cartRowVars>>

\* DELETE /api/products/:id
DeleteProduct(p) ==
  /\ p \in productRows
  /\ ~ProductLocked(p, "none")
  /\ productRows' = productRows \ {p}
  /\ UNCHANGED <<stock, price, cart, orders, orderItems, nextOrderId, smtp,
                 adminUpdates, cartOps>>
  /\ UNCHANGED <<reqVars, viewVars, restockVars, cartRowVars>>

\* Two checkouts have committed: user 1 bought 2 x product 1 at 10.00 and
\* 1 x product 2 at 5.00, then user 2 bought 1 x product 1 at 19.99.
InvoiceInit ==
  /\ stock = [p \in Products |-> MaxStock]
  /\ cart = [u \in Users |-> NoCart]
  /\ wishlist = {}
  /\ price = [p \in Products |-> IF p = 1 THEN 1999 ELSE InitPrice[p]]
  /\ orders = {[id |-> 1, user_id |-> 1, subtotal |-> 2500, tax |-> 250,
                total |-> 2750],
               [id |-> 2, user_id |-> 2, subtotal |-> 1999, tax |-> 200,
                total |-> 2199]}
  /\ orderItems = {[order_id |-> 1, product_id |-> 1, quantity |-> 2,
                    price |-> 1000],
                   [order_id |-> 1, product_id |-> 2, quantity |-> 1,
                    price |-> 500],
                   [order_id |-> 2, product_id |-> 1, quantity |-> 1,
                    price |-> 1999]}
  /\ nextOrderId = 3
  /\ smtp \in BOOLEAN
  /\ adminUpdates = 0
  /\ cartOps = 0
  /\ pc = [r \in Reqs |-> "idle"]
  /\ user = [r \in Reqs |-> 0]
  /\ cartItems = [r \in Reqs |-> <<>>]
  /\ orderId = [r \in Reqs |-> 0]
  /\ idx = [r \in Reqs |-> 0]
  /\ result = [r \in Reqs |-> NoResult]
  /\ invoice = [r \in Reqs |-> "none"]
  /\ consumed = [r \in Reqs |-> FALSE]
  /\ productRows = Products
  /\ view = [v \in Views |-> NoView]
  /\ admin = NoAdmin
  /\ cartRows = {}
  /\ nextCartId = 1
  /\ adds = [c \in Adds |-> NoAdd]
  /\ accepted = [u \in Users |-> NoCart]
  /\ lastCart = NoLastCart
  /\ conn = [r \in Reqs |-> NoConn]

InvoiceNext ==
  \/ \E v \in Views, u \in Users, id \in OrderIds : GetOrder(v, u, id)
  \/ \E v \in Views, u \in Users, id \in OrderIds : RenderInvoice(v, u, id)
  \/ \E v \in Views : SendView(v)
  \/ \E p \in Products : DeleteProduct(p)
  \/ \E p \in Products, c \in Prices, s \in (-1)..MaxStock : UpdateProduct(p, c, s)

InvoiceSpec == InvoiceInit /\ [][InvoiceNext]_vars

\* ------------------------------------- PUT /api/products/:id, step by step
\* The stock SELECT before the UPDATE, and the 404 when it returns no row
AdminRead(p, newPrice, stockInput) ==
  /\ admin.pc \in {"idle", "done"}
  /\ adminUpdates < MaxAdminUpdates
  /\ adminUpdates' = adminUpdates + 1
  /\ admin' = IF p \in productRows
                THEN [NoAdmin EXCEPT !.pc = "read", !.product = p,
                                     !.price = newPrice,
                                     !.stockValue = StockValue(stockInput),
                                     !.before = stock[p]]
                ELSE [NoAdmin EXCEPT !.pc = "done", !.product = p,
                                     !.result = "ProductNotFound"]
  /\ UNCHANGED <<stock, price, cart, orders, orderItems, nextOrderId, smtp,
                 cartOps, productRows, wishlist>>
  /\ UNCHANGED <<reqVars, viewVars, cartRowVars>>

\* UPDATE products SET title=?, price=?, description=?, Rating=?, stock=?
AdminWrite ==
  /\ admin.pc = "read"
  /\ ~ProductLocked(admin.product, "none")
  /\ stock' = [stock EXCEPT ![admin.product] = admin.stockValue]
  /\ price' = [price EXCEPT ![admin.product] = admin.price]
  /\ admin' = [admin EXCEPT !.pc = "test", !.old = stock[admin.product]]
  /\ UNCHANGED <<cart, orders, orderItems, nextOrderId, smtp, adminUpdates,
                 cartOps, productRows, wishlist>>
  /\ UNCHANGED <<reqVars, viewVars, cartRowVars>>

\* Faulty variant: if (stockValue > 0), without the stock read before.
RestockWritten(before, stockValue) == stockValue > 0

\* beforeRows[0].stock <= 0 && stockValue > 0
RestockObserved(before, stockValue) == before <= 0 /\ stockValue > 0

\* Faulty variant: sendBackInStockAlerts without the test of the SMTP
\* settings.
AlertsAlwaysConfigured == TRUE

\* sendBackInStockAlerts: SMTP_HOST, SMTP_USER and SMTP_PASS are all set
AlertsConfigured == smtp

\* SELECT DISTINCT users.email, users.name, products.title FROM wishlist
\* JOIN users ... JOIN products ... WHERE wishlist.product_id IN (?): one row
\* per user who has a wishlist row for the product.
WishlistRows(p) == {u \in Users : <<u, p>> \in wishlist /\ p \in productRows}

\* The restock test and, when it passes, sendBackInStockAlerts up to its
\* wishlist SELECT
AdminAlerts ==
  /\ admin.pc = "test"
  /\ LET rows == WishlistRows(admin.product) IN
       admin' =
         IF /\ RestockObserved(admin.before, admin.stockValue)
            /\ AlertsConfigured
            /\ rows # {}
           THEN [admin EXCEPT !.pc = "send", !.todo = rows]
           ELSE [admin EXCEPT !.pc = "respond"]
  /\ UNCHANGED <<stock, price, cart, orders, orderItems, nextOrderId, smtp,
                 adminUpdates, cartOps, productRows, wishlist>>
  /\ UNCHANGED <<reqVars, viewVars, cartRowVars>>

\* One turn of the send loop: await transporter.sendMail to the next row, in
\* whatever order the SELECT returned the rows.  A rejected sendMail leaves
\* the loop, sendBackInStockAlerts and the handler, which has no catch: no
\* response is sent.
SendAlert(u, outcome) ==
  /\ admin.pc = "send"
  /\ u \in admin.todo
  /\ admin' =
       [admin EXCEPT
          !.sent = Append(@, [user |-> u, outcome |-> outcome]),
          !.todo = IF outcome = "failed" THEN {} ELSE @ \ {u},
          !.pc = IF outcome = "failed" THEN "done"
                 ELSE IF admin.todo = {u} THEN "respond" ELSE "send",
          !.result = IF outcome = "failed" THEN "NoResponse" ELSE @]
  /\ UNCHANGED <<stock, price, cart, orders, orderItems, nextOrderId, smtp,
                 adminUpdates, cartOps, productRows, wishlist>>
  /\ UNCHANGED <<reqVars, viewVars, cartRowVars>>

\* res.json({ message: "Updated successfully" })
AdminRespond ==
  /\ admin.pc = "respond"
  /\ admin' = [admin EXCEPT !.pc = "done", !.result = "Updated"]
  /\ UNCHANGED <<stock, price, cart, orders, orderItems, nextOrderId, smtp,
                 adminUpdates, cartOps, productRows, wishlist>>
  /\ UNCHANGED <<reqVars, viewVars, cartRowVars>>

\* POST /api/products: INSERT INTO products (..., stock) with
\* stockValue = Math.max(0, parseInt(stock) || 0), then the response.  The
\* handler makes no call of sendBackInStockAlerts.
CreateProduct(p, newPrice, stockInput) ==
  /\ p \notin productRows
  /\ productRows' = productRows \cup {p}
  /\ stock' = [stock EXCEPT ![p] = StockValue(stockInput)]
  /\ price' = [price EXCEPT ![p] = newPrice]
  /\ UNCHANGED <<cart, orders, orderItems, nextOrderId, smtp, adminUpdates,
                 cartOps, wishlist, admin>>
  /\ UNCHANGED <<reqVars, viewVars, cartRowVars>>

\* Product 1 has one unit left and user 1 holds it in the cart; product 2 is
\* out of stock or not yet created; any wishlist rows.
RestockInit ==
  /\ stock = [p \in Products |-> IF p = 1 THEN 1 ELSE 0]
  /\ cart = [u \in Users |->
               [p \in Products |-> IF u = 1 /\ p = 1 THEN 1 ELSE 0]]
  /\ wishlist \in SUBSET (Users \X Products)
  /\ productRows \in {Products, {1}}
  /\ InitRest

RestockNext ==
  \/ \E p \in Products, c \in Prices, s \in (-1)..MaxStock : AdminRead(p, c, s)
  \/ AdminWrite
  \/ AdminAlerts
  \/ \E u \in Users, o \in {"sent", "failed"} : SendAlert(u, o)
  \/ AdminRespond
  \/ \E p \in Products, c \in Prices, s \in (-1)..MaxStock : CreateProduct(p, c, s)
  \/ \E r \in RestockReqs, u \in Users : PlaceOrder(r, u)
  \/ \E r \in RestockReqs : InsertOrder(r)
  \/ \E r \in RestockReqs : InsertItem(r)
  \/ \E r \in RestockReqs : ClearCart(r)
  \/ \E r \in RestockReqs : Commit(r)
  \/ \E r \in RestockReqs : SendInvoice(r)
  \/ \E r \in RestockReqs : QueryFails(r)

RestockSpec == RestockInit /\ [][RestockNext]_vars

\* ------------------------------------------ the cart table, row by row
\* The unique key of table cart.  The table is created outside server.js;
\* INSERT ... ON DUPLICATE KEY UPDATE in POST /api/cart relies on the key
\* being (user_id, product_id).
CartUniqueKey(row) == <<row.user_id, row.product_id>>

\* Faulty variant: ON DUPLICATE KEY UPDATE quantity = VALUES(quantity)
OnDuplicateKeyOverwrite(quantity, qty) == qty

\* ON DUPLICATE KEY UPDATE quantity = quantity + VALUES(quantity)
OnDuplicateKey(quantity, qty) == quantity + qty

\* POST /api/cart up to the INSERT: qty, the stock SELECT, 404 and 400
CartAddRead(c, u, p, quantity) ==
  /\ adds[c].pc \in {"idle", "done"}
  /\ cartOps < MaxCartOps
  /\ cartOps' = cartOps + 1
  /\ adds' = [adds EXCEPT ![c] =
       LET req == [NoAdd EXCEPT !.user = u, !.product = p,
                                !.quantity = quantity, !.qty = CartQty(quantity)]
       IN  IF p \notin productRows
             THEN [req EXCEPT !.pc = "done", !.result = "ProductNotFound"]
           ELSE IF stock[p] <= 0
             THEN [req EXCEPT !.pc = "done", !.result = "OutOfStock"]
           ELSE [req EXCEPT !.pc = "insert"]]
  /\ lastCart' = [op |-> "add", user |-> u, id |-> 0]
  /\ UNCHANGED <<stock, price, cart, orders, orderItems, nextOrderId, smtp,
                 adminUpdates, productRows, cartRows, nextCartId, accepted>>
  /\ UNCHANGED <<reqVars, viewVars, restockVars>>

\* INSERT INTO cart (user_id, product_id, quantity) VALUES (?,?,?)
\* ON DUPLICATE KEY UPDATE ..., one atomic statement, and the response
CartAddInsert(c) ==
  /\ adds[c].pc = "insert"
  /\ LET new == [id |-> nextCartId, user_id |-> adds[c].user,
                 product_id |-> adds[c].product, quantity |-> adds[c].qty]
         dup == {row \in cartRows : CartUniqueKey(row) = CartUniqueKey(new)}
     IN  cartRows' =
           IF dup = {} THEN cartRows \cup {new}
           ELSE (cartRows \ dup) \cup
                {[row EXCEPT !.quantity = OnDuplicateKey(@, adds[c].qty)]
                   : row \in dup}
  /\ nextCartId' = nextCartId + 1
  /\ accepted' = [accepted EXCEPT ![adds[c].user][adds[c].product] =
                     @ + (IF adds[c].quantity >= 1 THEN adds[c].quantity ELSE 1)]
  /\ adds' = [adds EXCEPT ![c].pc = "done", ![c].result = "Added"]
  /\ lastCart' = [op |-> "add", user |-> adds[c].user, id |-> 0]
  /\ UNCHANGED <<stock, price, cart, orders, orderItems, nextOrderId, smtp,
                 adminUpdates, cartOps, productRows>>
  /\ UNCHANGED <<reqVars, viewVars, restockVars>>

\* Faulty variant: DELETE FROM cart WHERE id = ?
RowsWithId(u, id) == {row \in cartRows : row.id = id}

\* The rows of DELETE FROM cart WHERE id = ? AND user_id = ?
OwnRowsWithId(u, id) == {row \in cartRows : row.id = id /\ row.user_id = u}

\* DELETE /api/cart/:id
CartRemove(u, id) ==
  /\ cartOps < MaxCartOps
  /\ cartOps' = cartOps + 1
  /\ lastCart' = [op |-> "remove", user |-> u, id |-> id]
  /\ LET gone == OwnRowsWithId(u, id) IN
       /\ cartRows' = cartRows \ gone
       /\ accepted' = [accepted EXCEPT ![u] =
            [p \in Products |->
               IF \E row \in gone : row.product_id = p THEN 0 ELSE @[p]]]
  /\ UNCHANGED <<stock, price, cart, orders, orderItems, nextOrderId, smtp,
                 adminUpdates, productRows, nextCartId, adds>>
  /\ UNCHANGED <<reqVars, viewVars, restockVars>>

\* What a committing checkout of user u does to table cart:
\* DELETE FROM cart WHERE user_id = ?.  It is taken here whenever the user
\* has a cart row, which is at least as often as a checkout can commit; the
\* other rows a checkout writes are those of Commit.
CheckoutClearsCart(u) ==
  /\ \E row \in cartRows : row.user_id = u
  /\ cartRows' = {row \in cartRows : row.user_id # u}
  /\ accepted' = [accepted EXCEPT ![u] = NoCart]
  /\ lastCart' = [op |-> "clear", user |-> u, id |-> 0]
  /\ UNCHANGED <<stock, price, cart, orders, orderItems, nextOrderId, smtp,
                 adminUpdates, cartOps, productRows, nextCartId, adds>>
  /\ UNCHANGED <<reqVars, viewVars, restockVars>>

\* No cart row yet; each product is in stock or out of stock.
CartInit ==
  /\ stock \in [Products -> {0, MaxStock}]
  /\ cart = [u \in Users |-> NoCart]
  /\ wishlist = {}
  /\ productRows = Products
  /\ InitRest

CartNext ==
  \/ \E c \in Adds, u \in Users, p \in Products, q \in 0..MaxQty :
       CartAddRead(c, u, p, q)
  \/ \E c \in Adds : CartAddInsert(c)
  \/ \E u \in Users, id \in 1..MaxCartOps : CartRemove(u, id)
  \/ \E u \in Users : CheckoutClearsCart(u)

CartSpec == CartInit /\ [][CartNext]_vars

\* ------------------------- two checkouts, the invoice mail in its two steps
\* sendInvoiceEmail is called: without the SMTP settings it returns at once
\* and the handler answers; with them transporter.sendMail is under way and
\* the handler awaits it.
StartInvoice(r) ==
  /\ CanDispatch(r)
  /\ IF smtp
       THEN /\ pc' = [pc EXCEPT ![r] = "sending"]
            /\ invoice' = [invoice EXCEPT ![r] = "pending"]
            /\ UNCHANGED <<result, cartItems, orderId, idx, consumed, conn>>
       ELSE /\ invoice' = [invoice EXCEPT ![r] = "skipped"]
            /\ Respond(r, AfterInvoice("skipped"), 0, OrderPayload(r))
            /\ conn' = [conn EXCEPT ![r] = Release(@, AfterInvoice("skipped"))]
            /\ Finish(r)
  /\ UNCHANGED <<stock, price, cart, orders, orderItems, nextOrderId, smtp,
                 adminUpdates, cartOps, user>>
  /\ UNCHANGED otherVars

\* transporter.sendMail settles, resolved or rejected; the await returns,
\* .catch logs a rejection, then res.json and the finally
InvoiceSettles(r, outcome) ==
  /\ pc[r] = "sending"
  /\ invoice' = [invoice EXCEPT ![r] = outcome]
  /\ Respond(r, AfterInvoice(outcome), 0, OrderPayload(r))
  /\ conn' = [conn EXCEPT ![r] = Release(@, AfterInvoice(outcome))]
  /\ Finish(r)
  /\ UNCHANGED <<stock, price, cart, orders, orderItems, nextOrderId, smtp,
                 adminUpdates, cartOps, user>>
  /\ UNCHANGED otherVars

\* The cart of user u before the two checkouts: user 1 holds one unit of
\* product 1, user 2 holds MaxQty units of product 2.
PairCart(u) ==
  [p \in Products |-> IF p # u THEN 0 ELSE IF u = 1 THEN 1 ELSE MaxQty]

\* Two users with carts of disjoint products.  Product 1 has MaxStock units;
\* product 2 has MaxStock units or a single one, fewer than user 2 asks for.
PairInit ==
  /\ stock \in {[p \in Products |-> IF p = 1 THEN MaxStock ELSE s] :
                  s \in {1, MaxStock}}
  /\ cart = [u \in Users |-> PairCart(u)]
  /\ wishlist = {}
  /\ productRows = Products
  /\ InitRest

\* The steps the server takes by itself once the query before has returned.
HandlerStep(r) ==
  \/ InsertOrder(r)
  \/ InsertItem(r)
  \/ ClearCart(r)
  \/ Commit(r)
  \/ StartInvoice(r)

PairNext ==
  \/ \E r \in Reqs, u \in Users : PlaceOrder(r, u)
  \/ \E r \in Reqs : HandlerStep(r)
  \/ \E r \in Reqs, o \in {"sent", "failed"} : InvoiceSettles(r, o)
  \/ \E r \in Reqs : QueryFails(r)

\* Node runs a handler's continuation once the awaited query has returned,
\* and MySQL returns from a query once the row locks it waits for are gone:
\* the handler's own steps are taken when they stay possible.  When the SMTP
\* server answers, and whether a query fails, is not the server's to decide.
PairSpec ==
  /\ PairInit
  /\ [][PairNext]_vars
  /\ \A r \in Reqs : WF_vars(HandlerStep(r))

\* The last unit: product 1 is down to one unit and both users hold one unit
\* of it in their carts.
RaceInit ==
  /\ stock = [p \in Products |-> 1]
  /\ cart = [u \in Users |-> [p \in Products |-> IF p = 1 THEN 1 ELSE 0]]
  /\ wishlist = {}
  /\ productRows = Products
  /\ InitRest

RaceSpec == RaceInit /\ [][Next]_vars

\* ================================================================ properties
Placed(r) == result[r].kind = "OrderPlaced"
Failed(r) == result[r].kind = "TransactionFailed"

\* The step in which request r, sent by user u, reads u's cart.
ReadStep(r, u) == pc[r] = "idle" /\ pc'[r] # "idle" /\ user'[r] = u
\* The step in which request r commits.
CommitStep(r) == pc[r] = "commit" /\ pc'[r] = "mail"
\* Any step of request r.
StepOf(r) == pc'[r] # pc[r] \/ idx'[r] # idx[r]

\* C1. Under RaceSpec (both users hold one unit of product 1, one unit is
\* left) with no cart request, no admin update and no failing statement: once
\* two checkouts by the two users have both answered, exactly one was placed,
\* the other was refused for insufficient stock, one order exists and the
\* stock of product 1 is 0.
C1_LastUnitSoldOnce ==
  ( /\ cartOps = 0 /\ adminUpdates = 0
    /\ \A r \in Reqs : pc[r] = "done" /\ ~Failed(r)
    /\ user["r1"] # user["r2"] )
  => /\ \E w \in Reqs, l \in Reqs :
          Placed(w) /\ result[l].kind = "InsufficientStock"
     /\ Cardinality(orders) = 1
     /\ stock[1] = 0

\* C2. The stock of every product is at least 0 in every reachable state.
C2_StockNeverNegative == \A p \in Products : stock[p] >= 0

\* C3. No request commits an order from cart rows from which another request
\* of the same user has already committed one.
C3_OneOrderPerCartContent == \A r \in Reqs : pc[r] = "mail" => ~consumed[r]

\* The cart lines of user u as the committed cart rows hold them.
CartLines(u) == {<<p, cart[u][p]>> : p \in {q \in Products : cart[u][q] > 0}}
\* Every line of u's cart asks for no more than the product's stock.
AllInStock(u) == \A p \in Products : cart[u][p] > 0 => cart[u][p] <= stock[p]
\* The quantity of product p among the rows request r read, 0 for none.
Asked(r, p) ==
  LET hit == {i \in 1..Len(cartItems[r]) : cartItems[r][i].product_id = p}
  IN  IF hit = {} THEN 0 ELSE cartItems[r][CHOOSE i \in hit : TRUE].quantity

\* C4. A checkout that reads a non-empty cart whose every line is in stock is
\* accepted with exactly those lines; it ends in no refusal; its commit adds
\* exactly one orders row, for its user, and one order_items row per cart row
\* read, with that row's quantity and price, lowers each bought product's
\* stock by exactly the quantity bought and no other stock, and leaves the
\* user's cart empty; and it answers "Order placed".  A cart of 2 x 10.00 and
\* 1 x 5.00 is stored as subtotal 25.00, tax 2.50, total 27.50.
C4_CheckoutEffects ==
  [][\A r \in Reqs :
       /\ \A u \in Users :
            (ReadStep(r, u) /\ CartLines(u) # {} /\ AllInStock(u))
            => (pc'[r] = "order" /\ Lines(cartItems'[r]) = CartLines(u))
       /\ (InTx(r) /\ pc'[r] = "done") => Failed(r)'
       /\ CommitStep(r) =>
            /\ \E row \in orders' :
                 /\ row \notin orders
                 /\ orders' = orders \cup {row}
                 /\ row.id = orderId[r] /\ row.user_id = user[r]
                 /\ CentsToNumber(row.subtotal) = Subtotal(cartItems[r])
                 /\ (/\ Lines(cartItems[r]) = {<<1, 2>>, <<2, 1>>}
                     /\ cartItems[r][1].price = 1000
                     /\ cartItems[r][2].price = 500)
                    => (row.subtotal = 2500 /\ row.tax = 250 /\ row.total = 2750)
            /\ orderItems \cap (orderItems' \ orderItems) = {}
            /\ orderItems' \ orderItems =
                 {[order_id |-> orderId[r], product_id |-> cartItems[r][i].product_id,
                   quantity |-> cartItems[r][i].quantity,
                   price |-> cartItems[r][i].price] : i \in 1..Len(cartItems[r])}
            /\ Cardinality(orderItems' \ orderItems) = Cardinality(Lines(cartItems[r]))
            /\ \A p \in Products : stock'[p] = stock[p] - Asked(r, p)
            /\ cart'[user[r]] = NoCart
            /\ \A u \in Users \ {user[r]} : cart'[u] = cart[u]
       /\ (pc[r] = "mail" /\ pc'[r] = "done")
            => (Placed(r)' /\ result'[r].order.id = orderId[r])
    ]_vars

\* C4 witness: the cart 2 x product 1 at 10.00, 1 x product 2 at 5.00 bought
\* from stocks 2 and 2.
C4_Witness ==
  \E r \in Reqs :
    /\ pc[r] = "done" /\ Placed(r)
    /\ result[r].order.subtotal = 25000
    /\ result[r].order.tax = 2500
    /\ result[r].order.total = 27500
    /\ [id |-> result[r].order.id, user_id |-> user[r], subtotal |-> 2500,
        tax |-> 250, total |-> 2750] \in orders
    /\ Cardinality(orderItems) = 2
    /\ stock = <<0, 1>>
    /\ cart[user[r]] = NoCart

\* C5. A checkout that reads a cart with a line asking for more than the
\* product's stock answers InsufficientStock, naming a product of the cart
\* whose stock is below the quantity asked, and that step leaves the products,
\* cart, orders and order_items rows as they were.
C5_InsufficientStockNoEffect ==
  [][\A r \in Reqs, u \in Users :
       (ReadStep(r, u) /\ ~AllInStock(u))
       => /\ pc'[r] = "done"
          /\ result'[r].kind = "InsufficientStock"
          /\ result'[r].product \in Products
          /\ cart[u][result'[r].product] > stock[result'[r].product]
          /\ UNCHANGED <<stock, price, cart, orders, orderItems>>
    ]_vars

\* C5 witness: a request refused for a product of which the cart asks more
\* than is in stock, in a cart that also holds a line that is in stock.
C5_Witness ==
  \E r \in Reqs :
    /\ pc[r] = "done" /\ result[r].kind = "InsufficientStock"
    /\ cart[user[r]][result[r].product] > stock[result[r].product]
    /\ \E p \in Products : cart[user[r]][p] > 0 /\ cart[user[r]][p] <= stock[p]
    /\ orders = {} /\ orderItems = {}

\* C6. A checkout that reads an empty cart answers EmptyCart and that step
\* writes nothing: products, cart, orders, order_items, the order id counter
\* and the invoice mails are as before.
C6_EmptyCartNoWrites ==
  [][\A r \in Reqs, u \in Users :
       (ReadStep(r, u) /\ cart[u] = NoCart)
       => /\ pc'[r] = "done"
          /\ result'[r].kind = "EmptyCart"
          /\ UNCHANGED <<stock, price, cart, orders, orderItems, nextOrderId,
                         invoice>>
    ]_vars

\* C6 witness: a request answered EmptyCart.
C6_Witness ==
  \E r \in Reqs : pc[r] = "done" /\ result[r].kind = "EmptyCart"
                  /\ cart[user[r]] = NoCart

\* C7. While a checkout's transaction is open none of its rows is among the
\* committed rows; every step it takes other than its commit, the failure of
\* a statement included, leaves the committed products, cart, orders and
\* order_items rows unchanged; and a transaction that ends without commit
\* answers TransactionFailed.
C7_RollbackLeavesNothing ==
  [][\A r \in Reqs :
       InTx(r) =>
         /\ orderId[r] # 0 =>
              /\ \A row \in orders : row.id # orderId[r]
              /\ \A item \in orderItems : item.order_id # orderId[r]
         /\ (StepOf(r) /\ ~CommitStep(r))
              => UNCHANGED <<stock, price, cart, orders, orderItems>>
         /\ pc'[r] = "done"
              => /\ Failed(r)'
                 /\ \A row \in orders' : row.id # orderId[r]
                 /\ \A item \in orderItems' : item.order_id # orderId[r]
    ]_vars

\* C7 witness: a checkout failed after its stock UPDATE and cart DELETE; the
\* stock and the cart are whole and no order exists.
C7_Witness ==
  \E r \in Reqs :
    /\ pc[r] = "done" /\ Failed(r)
    /\ nextOrderId = 2
    /\ stock = [p \in Products |-> MaxStock]
    /\ cart[user[r]] # NoCart
    /\ orders = {} /\ orderItems = {}

\* C8. A request whose invoice mail failed was answered "Order placed", and
\* its orders row and its order_items rows are among the committed rows.
C8_InvoiceFailureKeepsOrder ==
  \A r \in Reqs :
    invoice[r] = "failed"
    => /\ Placed(r)
       /\ \E row \in orders : row.id = result[r].order.id /\ row.user_id = user[r]
       /\ \E item \in orderItems : item.order_id = result[r].order.id

\* C8 witness: a placed order whose invoice mail failed; its cart is empty.
C8_Witness ==
  \E r \in Reqs : invoice[r] = "failed" /\ Placed(r) /\ cart[user[r]] = NoCart

\* C9. An invoice mail was attempted only for a request whose orders row is
\* committed, and a request answered EmptyCart, InsufficientStock or
\* TransactionFailed attempted none.
C9_DispatchOnlyAfterCommit ==
  \A r \in Reqs :
    /\ invoice[r] \in {"sent", "failed"}
       => \E row \in orders : row.id = result[r].order.id /\ row.user_id = user[r]
    /\ result[r].kind \in {"EmptyCart", "InsufficientStock", "TransactionFailed"}
       => invoice[r] = "none"
    /\ pc[r] # "done" => invoice[r] = "none"

\* C9 witness: one request's invoice was sent, the other request failed.
C9_Witness ==
  \E r \in Reqs, o \in Reqs :
    invoice[r] = "sent" /\ Failed(o) /\ invoice[o] = "none"

\* round(x, 2) of a number of mills, half away from zero, in cents
Round2(n) == (n + 5) \div 10

\* C10. Every orders row has tax = round(subtotal x 0.10, 2) and
\* total = subtotal + tax, and the subtotal, tax and total a placed request
\* returned are those of its orders row.
C10_MoneyAgrees ==
  /\ \A row \in orders :
       /\ row.tax = Round2(Tax(CentsToNumber(row.subtotal)))
       /\ row.total = row.subtotal + row.tax
  /\ \A r \in Reqs :
       Placed(r) =>
         \E row \in orders :
           /\ row.id = result[r].order.id
           /\ result[r].order.subtotal = CentsToNumber(row.subtotal)
           /\ result[r].order.tax = CentsToNumber(row.tax)
           /\ result[r].order.total = CentsToNumber(row.total)

\* C11. Every step, whichever handler takes it, keeps every committed orders
\* row and every committed order_items row as it is, and no two rows share an
\* order id or an (order id, product) pair, so that no row is rewritten.
C11_OrdersImmutable ==
  [][/\ orders \subseteq orders'
     /\ orderItems \subseteq orderItems'
     /\ \A a \in orders', b \in orders' : a.id = b.id => a = b
     /\ \A a \in orderItems', b \in orderItems' :
          (a.order_id = b.order_id /\ a.product_id = b.product_id) => a = b
    ]_vars

\* C11 witness: two orders are committed, both requests have answered, the
\* cart requests and the admin update have all been served, and the admin
\* update left a product at a price other than the one an order line keeps.
C11_Witness ==
  /\ Cardinality(orders) = 2
  /\ \A r \in Reqs : pc[r] = "done" /\ Placed(r)
  /\ adminUpdates = MaxAdminUpdates /\ cartOps = MaxCartOps
  /\ \E item \in orderItems : price[item.product_id] # item.price

\* The order_items rows of order id.
ItemsOf(id) == {i \in orderItems : i.order_id = id}

RECURSIVE SumItems(_)
\* The sum of price x quantity over a set of order_items rows, in cents.
SumItems(S) ==
  IF S = {} THEN 0
  ELSE LET i == CHOOSE x \in S : TRUE
       IN  i.price * i.quantity + SumItems(S \ {i})

\* C20. The subtotal of every committed orders row is the sum of price x
\* quantity over the order_items rows of that order, and the rows of an order
\* just committed hold the product, quantity and price of the rows the
\* request's cart SELECT returned, whatever the products and cart rows hold by
\* then.
C20_SubtotalIsSumOfLines ==
  /\ \A row \in orders : row.subtotal = SumItems(ItemsOf(row.id))
  /\ \A r \in Reqs :
       pc[r] = "mail" =>
         ItemsOf(orderId[r]) =
           {[order_id |-> orderId[r], product_id |-> cartItems[r][i].product_id,
             quantity |-> cartItems[r][i].quantity,
             price |-> cartItems[r][i].price] : i \in 1..Len(cartItems[r])}

\* C20 witness: a request has committed an order of one line while the other
\* request never started; the product's stock is negative and its price is
\* not the line's, so the admin update came between the cart SELECT and the
\* commit; the subtotal is the line's price x quantity.
C20_Witness ==
  \E r \in Reqs, item \in orderItems, row \in orders :
    /\ pc[r] = "mail" /\ \A o \in Reqs \ {r} : pc[o] = "idle"
    /\ ItemsOf(orderId[r]) = {item} /\ row.id = orderId[r]
    /\ stock[item.product_id] < 0
    /\ price[item.product_id] # item.price
    /\ row.subtotal = item.price * item.quantity

\* A finished invoice request that got its document.
Rendered(v) ==
  view[v].pc = "done" /\ view[v].kind = "invoice" /\ view[v].status = "ok"

\* C12. Under InvoiceSpec (two committed orders, then product updates and
\* deletions): every invoice rendered shows the subtotal, tax and total of
\* its orders row and one line for each order_items row of the order.
C12_InvoiceReproducesOrder ==
  \A v \in Views :
    Rendered(v) =>
      /\ view[v].body.subtotal = view[v].order.subtotal
      /\ view[v].body.tax = view[v].order.tax
      /\ view[v].body.total = view[v].order.total
      /\ {<<l.product_id, l.quantity>> : l \in view[v].body.lines}
           = {<<i.product_id, i.quantity>> : i \in ItemsOf(view[v].id)}

\* C13. Under InvoiceSpec: two invoices rendered for the same order and the
\* same caller have the same text.
C13_RenderTwiceSameBytes ==
  \A v \in Views, w \in Views :
    (Rendered(v) /\ Rendered(w) /\ view[v].id = view[w].id
       /\ view[v].caller = view[w].caller)
    => view[v].body = view[w].body

\* C14. Under InvoiceSpec: a request for an order id of which the caller owns
\* no orders row ends at once in OrderNotFound, carrying no row, no item and
\* no invoice; and whatever a request carries belongs to an order of its
\* caller: its orders row has the caller's user id and the id asked for, its
\* items and its invoice are of that order.
C14_ForeignOrderNotFound ==
  [][\A v \in Views :
       /\ (view[v].pc = "idle" /\ view'[v].pc # "idle"
            /\ ~\E row \in orders : /\ row.id = view'[v].id
                                    /\ row.user_id = view'[v].caller)
          => /\ view'[v].pc = "done"
             /\ view'[v].status = "OrderNotFound"
       /\ view'[v].status = "OrderNotFound"
          => (view'[v].order = NoRow /\ view'[v].items = {}
              /\ view'[v].body = NoBody)
       /\ view'[v].order # NoRow
          => /\ view'[v].order \in orders
             /\ view'[v].order.user_id = view'[v].caller
             /\ view'[v].order.id = view'[v].id
       /\ view'[v].status = "ok"
          => /\ view'[v].order # NoRow
             /\ \A i \in view'[v].items : i.order_id = view'[v].order.id
             /\ view'[v].body # NoBody => view'[v].body.id = view'[v].order.id
    ]_vars

\* C14 witness: an order and an invoice request for user 2's order, one by
\* user 1 that ended in OrderNotFound, one by user 2 that got the invoice.
C14_Witness ==
  \E v \in Views, w \in Views :
    /\ view[v].pc = "done" /\ view[v].status = "OrderNotFound"
    /\ view[v].caller = 1 /\ view[v].id = 2
    /\ Rendered(w) /\ view[w].caller = 2 /\ view[w].id = 2
    /\ view[w].body.total = 2199

\* The send attempts of the update's notification run to user u.
AttemptsTo(u) ==
  Cardinality({i \in 1..Len(admin.sent) : admin.sent[i].user = u})

\* C15. Under RestockSpec (an admin update beside a checkout): a step that
\* takes the committed stock of an existing product from <= 0 to > 0 is the
\* UPDATE of an admin request whose restock test passes, that is, which read
\* a stock <= 0 before it.
C15_EveryRestockNotifies ==
  [][\A p \in productRows :
       (stock[p] <= 0 /\ stock'[p] > 0)
       => /\ admin.pc = "read" /\ admin'.pc = "test" /\ admin.product = p
          /\ RestockObserved(admin.before, admin.stockValue)
    ]_vars

\* C16. Under RestockSpec, with the SMTP settings present: when an admin
\* update whose UPDATE took the stock from 0 to a positive value has ended,
\* it has made exactly one send attempt to each user with a wishlist row for
\* the product and none to any other user.
C16_OneAlertPerWishlister ==
  ( /\ smtp /\ admin.pc = "done"
    /\ admin.result # "ProductNotFound"
    /\ admin.old = 0 /\ admin.stockValue > 0 )
  => \A u \in Users :
       AttemptsTo(u) = IF <<u, admin.product>> \in wishlist THEN 1 ELSE 0

\* C17. Under RestockSpec: when a notification run in which a send failed has
\* ended, every user with a wishlist row for the product has had a send
\* attempt.
C17_FailedSendDoesNotAbort ==
  ( /\ admin.pc = "done"
    /\ \E i \in 1..Len(admin.sent) : admin.sent[i].outcome = "failed" )
  => \A u \in Users :
       <<u, admin.product>> \in wishlist => AttemptsTo(u) >= 1

\* C18. Under RestockSpec, without the SMTP settings: no step makes a send
\* attempt of either kind; the step that would start the back-in-stock run
\* goes on to the response and leaves every row as it is, and the update
\* answers "Updated successfully"; the invoice step of a committed checkout
\* records the mail as skipped, leaves every row as it is, among them the
\* order just committed, and answers "Order placed".
C18_UnconfiguredMailIsNoOp ==
  [][~smtp =>
       /\ admin'.sent = <<>>
       /\ \A r \in Reqs : invoice'[r] \notin {"sent", "failed"}
       /\ (admin.pc = "test" /\ admin'.pc # "test")
            => /\ admin'.pc = "respond"
               /\ UNCHANGED <<stock, price, cart, orders, orderItems, wishlist>>
       /\ (admin.pc # "done" /\ admin'.pc = "done")
            => admin'.result \in {"Updated", "ProductNotFound"}
       /\ \A r \in Reqs :
            (pc[r] = "mail" /\ pc'[r] # "mail")
            => /\ pc'[r] = "done" /\ Placed(r)'
               /\ invoice'[r] = "skipped"
               /\ UNCHANGED <<stock, price, cart, orders, orderItems, wishlist>>
               /\ \E row \in orders' : /\ row.id = result'[r].order.id
                                        /\ row.user_id = user[r]
    ]_vars

\* C18 witness: without the SMTP settings, an update that read stock 0 and
\* wrote a positive stock for a product on a user's wishlist has answered
\* "Updated successfully" and the stock is the one it wrote; and a checkout
\* was placed with its invoice mail skipped.
C18_Witness ==
  /\ ~smtp
  /\ admin.pc = "done" /\ admin.result = "Updated"
  /\ admin.before = 0 /\ admin.stockValue > 0
  /\ stock[admin.product] = admin.stockValue
  /\ \E u \in Users : <<u, admin.product>> \in wishlist
  /\ \E r \in Reqs : /\ Placed(r) /\ invoice[r] = "skipped"
                      /\ \E row \in orders : row.id = result[r].order.id

\* The cart rows of user u for product p.
RowsOf(u, p) == {row \in cartRows : row.user_id = u /\ row.product_id = p}

\* C19. Under CartSpec (the cart table row by row, the add requests taken in
\* their two statements): table cart holds at most one row per user and
\* product; that row's quantity is the sum, over the adds accepted since the
\* row was last removed or cleared, of the quantity asked, counted as 1 when
\* it is below 1; and where that sum is 0 there is no row.
C19_OneLinePerProduct ==
  \A u \in Users, p \in Products :
    /\ Cardinality(RowsOf(u, p)) <= 1
    /\ \A row \in RowsOf(u, p) : row.quantity = accepted[u][p] /\ row.quantity >= 1
    /\ RowsOf(u, p) = {} => accepted[u][p] = 0

\* C19 witness: two add requests of one user for one product, one asking for
\* quantity 0 and one for 2, were both in flight past their stock SELECT and
\* have both been accepted: one row, inserted by the first, with quantity 3.
C19_Witness ==
  /\ \A c \in Adds : adds[c].pc = "done" /\ adds[c].result = "Added"
  /\ adds["c1"].user = adds["c2"].user
  /\ adds["c1"].product = adds["c2"].product
  /\ adds["c1"].quantity = 0 /\ adds["c2"].quantity = 2
  /\ cartOps = 2
  /\ \E row \in cartRows :
       /\ cartRows = {row}
       /\ row.quantity = 3
       /\ CartUniqueKey(row) = <<adds["c1"].user, adds["c1"].product>>

\* C21. Under RestockSpec: when an admin update in whose notification run a
\* send failed has ended, it has answered "Updated successfully".
C21_SendFailureNotPropagated ==
  \A i \in 1..Len(admin.sent) :
    (admin.sent[i].outcome = "failed" /\ admin.pc = "done")
    => admin.result = "Updated"

\* C26. Under Spec: a request that has not started holds no connection and
\* has taken none; one in flight has taken one connection and not released
\* it; one that has answered, whatever the answer, has taken one connection
\* and released it once; the connections out of the pool never exceed the
\* pool's limit, and are 0 when no request is in flight.
C26_ConnectionReleasedOnce ==
  /\ \A r \in Reqs :
       /\ pc[r] = "idle" => conn[r] = NoConn
       /\ pc[r] \notin {"idle", "done"}
            => conn[r] = [acquired |-> 1, released |-> 0]
       /\ pc[r] = "done" => conn[r] = [acquired |-> 1, released |-> 1]
  /\ CheckedOut >= 0 /\ CheckedOut <= connectionLimit
  /\ (\A r \in Reqs : pc[r] \in {"idle", "done"}) => CheckedOut = 0

\* C26 witness: one checkout left by the early return for insufficient stock
\* and one was placed with a failed invoice mail; both have released their
\* connection and none is out of the pool.
C26_Witness ==
  /\ result["r1"].kind = "InsufficientStock"
  /\ Placed("r2") /\ invoice["r2"] = "failed"
  /\ \A r \in Reqs : pc[r] = "done" /\ conn[r].released = 1
  /\ CheckedOut = 0

\* C25. Under RestockSpec (an admin update beside a checkout and a product
\* creation): a step that makes a back-in-stock send attempt is a turn of the
\* send loop of an admin update that read a stock <= 0 and wrote a stock > 0,
\* and is no step of a checkout or of a product creation; an update that
\* read a positive stock or wrote 0 has made no send attempt.
C25_AlertOnlyOnObservedRestock ==
  [][/\ Len(admin'.sent) > Len(admin.sent)
          => /\ admin.pc = "send"
             /\ admin.before <= 0 /\ admin.stockValue > 0
             /\ UNCHANGED <<stock, productRows, orders, pc, admin.before,
                            admin.stockValue, admin.product>>
     /\ admin'.sent # <<>> => admin'.before <= 0 /\ admin'.stockValue > 0
    ]_vars

\* C25 witness: with the SMTP settings present and both products on a
\* wishlist, an update of product 1 from positive stock to positive stock has
\* answered without a send attempt, product 2 was created with stock, and a
\* checkout was placed.
C25_Witness ==
  /\ smtp
  /\ admin.pc = "done" /\ admin.result = "Updated" /\ admin.product = 1
  /\ admin.before > 0 /\ admin.stockValue > 0
  /\ admin.sent = <<>>
  /\ \A p \in Products : \E u \in Users : <<u, p>> \in wishlist
  /\ 2 \in productRows /\ stock[2] > 0
  /\ \E r \in Reqs : Placed(r)

\* The cart rows of user w.
RowsOfUser(w) == {row \in cartRows : row.user_id = w}

\* C24. Under CartSpec (the cart table row by row): a step that changes the
\* cart rows of a user is a statement of a request of that user, whether an
\* add, a remove or the cart delete of a checkout; and a remove request whose
\* id is not the id of a row of its own user changes no cart row.
C24_CartChangedOnlyByOwner ==
  [][/\ \A w \in Users :
          RowsOfUser(w)' # RowsOfUser(w) => lastCart'.user = w
     /\ ( /\ cartOps' = cartOps + 1
          /\ lastCart'.op = "remove"
          /\ ~\E row \in cartRows : /\ row.id = lastCart'.id
                                    /\ row.user_id = lastCart'.user )
        => cartRows' = cartRows
    ]_vars

\* C24 witness: the last cart request was a remove by one user with the id of
\* a row of another user, and that row is still in the table.
C24_Witness ==
  /\ lastCart.op = "remove"
  /\ \E row \in cartRows : /\ row.id = lastCart.id
                           /\ row.user_id # lastCart.user

\* C22. Under PairSpec (the invoice mail in its two steps, the handler's own
\* steps taken when they stay possible): a checkout whose transaction has
\* committed goes on to answer "Order placed".
C22_CommittedCheckoutAnswers ==
  \A r \in Reqs : (pc[r] = "mail") ~> Placed(r)

\* Product 2 began with a single unit: it has MaxStock units or one to begin
\* with, and a checkout of user 2 takes MaxQty units or none.
PairScarce == stock[2] = 1

\* The stock of product p before the two checkouts.
PairStock(p) == IF p = 2 /\ PairScarce THEN 1 ELSE MaxStock

\* The answer to the checkout of user u when it runs with no other request.
Alone(u) ==
  IF PairCart(u)[u] > PairStock(u) THEN "InsufficientStock" ELSE "OrderPlaced"

\* C23. Under PairSpec, for a checkout of user 1 (cart: product 1) and a
\* checkout of user 2 (cart: product 2) in any interleaving: each call that
\* does not end in a failed query gets the answer it gets when run alone;
\* and when both have ended, for each user, if the order was placed the
\* stock of the user's product is down by the cart's quantity, the cart is
\* empty and there is one order of the user, with one line for that product
\* and quantity, else the product's stock and the cart are as before and
\* there is no order of the user; the order ids are distinct, and are 1..n
\* when no query failed.  This is the outcome of the two calls one after the
\* other, in either order.
C23_DisjointCheckoutsIndependent ==
  \A r1, r2 \in Reqs :
    (user[r1] = 1 /\ user[r2] = 2) =>
      /\ \A r \in {r1, r2} :
           (pc[r] = "done" /\ ~Failed(r))
           => /\ result[r].kind = Alone(user[r])
              /\ ~Placed(r) => result[r].product = user[r]
      /\ (pc[r1] = "done" /\ pc[r2] = "done") =>
           /\ \A r \in {r1, r2} :
                LET u == user[r]
                    mine == {row \in orders : row.user_id = u}
                IN  IF Placed(r)
                      THEN /\ stock[u] = PairStock(u) - PairCart(u)[u]
                           /\ cart[u] = NoCart
                           /\ Cardinality(mine) = 1
                           /\ \A row \in mine :
                                /\ row.id = result[r].order.id
                                /\ row.subtotal = price[u] * PairCart(u)[u]
                                /\ Cardinality(ItemsOf(row.id)) = 1
                                /\ \A i \in ItemsOf(row.id) :
                                     /\ i.product_id = u
                                     /\ i.quantity = PairCart(u)[u]
                      ELSE /\ stock[u] = PairStock(u)
                           /\ cart[u] = PairCart(u)
                           /\ mine = {}
           /\ Cardinality({row.id : row \in orders}) = Cardinality(orders)
           /\ (~Failed(r1) /\ ~Failed(r2))
                => {row.id : row \in orders} = 1..Cardinality(orders)

\* C23 witness: both checkouts have ended with their orders placed, the one
\* of user 2 under the earlier order id and with its invoice mail sent, the
\* one of user 1 with its invoice mail failed.
C23_Witness ==
  /\ user["r1"] = 1 /\ user["r2"] = 2
  /\ pc["r1"] = "done" /\ pc["r2"] = "done"
  /\ Placed("r1") /\ Placed("r2")
  /\ result["r2"].order.id = 1 /\ result["r1"].order.id = 2
  /\ invoice["r2"] = "sent" /\ invoice["r1"] = "failed"
  /\ Cardinality(orders) = 2
  /\ stock = [p \in Products |-> IF p = 1 THEN MaxStock - 1 ELSE MaxStock - MaxQty]

====
